---- MODULE Spec2Model ----
(***************************************************************************)
(* Model of pwncheck: the k-anonymity breach lookup (checkPassword), its   *)
(* prefix cache (hashCache), the sequential batch loop of main() and the   *)
(* CSV export, as implemented in src/pwncheck.js.                          *)
(*                                                                         *)
(* JavaScript strings are sequences of one-character strings, so that      *)
(* split, trim, parseInt, toUpperCase and escapeCsv are computed and not   *)
(* assumed.  JavaScript numbers are integers plus the value NaN.           *)
(***************************************************************************)
EXTENDS Integers, Sequences, FiniteSets, TLC

\* ------------------------------------------------------------------ bounds
MaxEntries == 3
MaxCsvLen == 3
MaxFileLen == 4

\* ------------------------------------------------------- program constants
API_RATE_LIMIT_DELAY_MS == 100
HASH_PREFIX_LENGTH == 5

\* ------------------------------------------------------- JavaScript values
\* NaN is encoded as an integer no parse of a modelled response can produce;
\* every comparison goes through the operators below, which give NaN its
\* JavaScript meaning (NaN === x, NaN > x and NaN >= x are all false).
NaN == 0 - 1000000

StrictEq(a, b) == a # NaN /\ b # NaN /\ a = b

Gt(a, b) == a # NaN /\ b # NaN /\ a > b

Ge(a, b) == a # NaN /\ b # NaN /\ a >= b

CR == "\r"
LF == "\n"

Whitespace == {" ", "\t", CR, LF}

Digits == <<"0", "1", "2", "3", "4", "5", "6", "7", "8", "9">>

IsDigit(c) == \E k \in 1..10 : Digits[k] = c

DigitVal(c) == (CHOOSE k \in 1..10 : Digits[k] = c) - 1

LowerHex == <<"a", "b", "c", "d", "e", "f">>
UpperHex == <<"A", "B", "C", "D", "E", "F">>

UpperChar(c) ==
  IF \E k \in 1..6 : LowerHex[k] = c
  THEN UpperHex[CHOOSE k \in 1..6 : LowerHex[k] = c]
  ELSE c

\* String.prototype.toUpperCase over the characters a digest can hold
toUpperCase(s) == [k \in 1..Len(s) |-> UpperChar(s[k])]

RECURSIVE TrimStart(_)
TrimStart(s) ==
  IF s # <<>> /\ s[1] \in Whitespace THEN TrimStart(Tail(s)) ELSE s

RECURSIVE TrimEnd(_)
TrimEnd(s) ==
  IF s # <<>> /\ s[Len(s)] \in Whitespace
  THEN TrimEnd(SubSeq(s, 1, Len(s) - 1))
  ELSE s

\* String.prototype.trim
trim(s) == TrimEnd(TrimStart(s))

\* s.substring(from) and s.substring(from, to), 0-based as in JavaScript
substring(s, from, to) ==
  LET f == IF from > Len(s) THEN Len(s) ELSE from
      t == IF to > Len(s) THEN Len(s) ELSE to
  IN  SubSeq(s, f + 1, t)

\* s.split(sep) for a separator of one or two characters
RECURSIVE SplitAcc(_, _, _)
SplitAcc(s, sep, cur) ==
  IF s = <<>> THEN <<cur>>
  ELSE IF Len(s) >= Len(sep) /\ SubSeq(s, 1, Len(sep)) = sep
       THEN <<cur>> \o SplitAcc(SubSeq(s, Len(sep) + 1, Len(s)), sep, <<>>)
       ELSE SplitAcc(Tail(s), sep, Append(cur, s[1]))

split(s, sep) == SplitAcc(s, sep, <<>>)

RECURSIVE DigitRun(_)
DigitRun(s) ==
  IF s # <<>> /\ IsDigit(s[1]) THEN <<s[1]>> \o DigitRun(Tail(s)) ELSE <<>>

RECURSIVE DigitsValue(_, _)
DigitsValue(s, acc) ==
  IF s = <<>> THEN acc ELSE DigitsValue(Tail(s), 10 * acc + DigitVal(s[1]))

\* parseInt(s, 10): leading whitespace skipped, optional sign, the longest
\* run of digits; NaN when there is no digit.
parseInt(s) ==
  LET t    == TrimStart(s)
      neg  == t # <<>> /\ t[1] = "-"
      body == IF t # <<>> /\ t[1] \in {"-", "+"} THEN Tail(t) ELSE t
      run  == DigitRun(body)
  IN  IF run = <<>> THEN NaN
      ELSE IF neg THEN 0 - DigitsValue(run, 0) ELSE DigitsValue(run, 0)

RECURSIVE NatToString(_)
NatToString(n) ==
  IF n < 10 THEN <<Digits[n + 1]>>
  ELSE NatToString(n \div 10) \o <<Digits[(n % 10) + 1]>>

\* String(n) for a JavaScript number
NumberToString(n) ==
  IF n = NaN THEN <<"N", "a", "N">>
  ELSE IF n < 0 THEN <<"-">> \o NatToString(0 - n)
  ELSE NatToString(n)

RECURSIVE join(_, _)
join(parts, sep) ==
  IF parts = <<>> THEN <<>>
  ELSE IF Len(parts) = 1 THEN parts[1]
  ELSE parts[1] \o sep \o join(Tail(parts), sep)

\* ---------------------------------------------------------------- inputs
\* Three passwords; the first two share their digest prefix, the first and
\* the third share their digest suffix.  The third is the CSV-hostile a,"b".
PwA == <<"a">>
PwB == <<"b">>
PwC == <<"a", ",", "\"", "b", "\"">>

Passwords == {PwA, PwB, PwC}

\* crypto.createHash('sha1').update(password).digest('hex'): lowercase hex.
\* The digests are synthetic and shortened to HASH_PREFIX_LENGTH + 2
\* characters; the split into prefix and suffix is the code's.
HexDigest(password) ==
  CASE password = PwA -> <<"0", "0", "0", "0", "a", "b", "1">>
    [] password = PwB -> <<"0", "0", "0", "0", "a", "c", "2">>
    [] password = PwC -> <<"0", "0", "0", "0", "f", "b", "1">>

sha1(password) == toUpperCase(HexDigest(password))

HashPrefix(password) == substring(sha1(password), 0, HASH_PREFIX_LENGTH)

HashSuffix(password) ==
  substring(sha1(password), HASH_PREFIX_LENGTH, Len(sha1(password)))

\* The bodies the remote service may answer with (the concatenated chunks).
BodyListed    == <<"B", "1", ":", "3", CR, LF, CR, LF, "C", "2", ":", "0", CR, LF>>
BodyLower     == <<"b", "1", ":", "7">>
BodyErrorPage == <<"R", "a", "t", "e">>
BodyBadCount  == <<"B", "1", ":", "x", CR, LF, "C", "2", ":", "1", "2">>
BodyNegative  == <<"B", "1", ":", "-", "1", CR, LF, "C", "2", ":", "-", "2">>
BodyOther     == <<" ", "D", "4", " ", ":", " ", "5", " ", CR, LF>>

Bodies == {BodyListed, BodyLower, BodyErrorPage, BodyBadCount, BodyNegative,
           BodyOther}

\* ------------------------------------------------------------ checkPassword
\* data.split('\r\n').filter(line => line.trim()).map(line => {...})
ParseLine(line) ==
  LET parts == split(line, <<":">>)
  IN  [suffix |-> trim(parts[1]),
       count  |-> IF Len(parts) >= 2 THEN parseInt(parts[2]) ELSE NaN]

ParseResponse(data) ==
  LET lines == SelectSeq(split(data, <<CR, LF>>), LAMBDA l : trim(l) # <<>>)
  IN  [k \in 1..Len(lines) |-> ParseLine(lines[k])]

\* a lookup that reports a missing suffix as a failure
MatchCountMissingFails(entries, suffix) ==
  IF \E k \in 1..Len(entries) : entries[k].suffix = suffix
  THEN entries[CHOOSE k \in 1..Len(entries) :
                 /\ entries[k].suffix = suffix
                 /\ \A j \in 1..(k - 1) : entries[j].suffix # suffix].count
  ELSE 0 - 1

\* entries.find(entry => entry.suffix === suffix); match ? match.count : 0
MatchCount(entries, suffix) ==
  IF \E k \in 1..Len(entries) : entries[k].suffix = suffix
  THEN entries[CHOOSE k \in 1..Len(entries) :
                 /\ entries[k].suffix = suffix
                 /\ \A j \in 1..(k - 1) : entries[j].suffix # suffix].count
  ELSE 0

\* a cache that is never consulted
CacheHasNever(cache, prefix) == FALSE

\* hashCache.has(prefix)
CacheHas(cache, prefix) == prefix \in DOMAIN cache

\* a store that starts the map afresh
CacheSetAlone(cache, prefix, entries) == [p \in {prefix} |-> entries]

\* a store that is forgotten
CacheSetForgets(cache, prefix, entries) == cache

\* hashCache.set(prefix, entries)
CacheSet(cache, prefix, entries) ==
  [p \in (DOMAIN cache) \cup {prefix} |->
     IF p = prefix THEN entries ELSE cache[p]]

\* a request whose path carries the whole digest
RequestOptionsFullHash(password) ==
  [hostname |-> "api.pwnedpasswords.com",
   path     |-> <<"/", "r", "a", "n", "g", "e", "/">> \o sha1(password),
   method   |-> "GET",
   headers  |-> [UserAgent |-> "Password-Checker-Script",
                 AddPadding |-> "true"]]

\* the options object handed to https.get
RequestOptions(password) ==
  [hostname |-> "api.pwnedpasswords.com",
   path     |-> <<"/", "r", "a", "n", "g", "e", "/">> \o HashPrefix(password),
   method   |-> "GET",
   headers  |-> [UserAgent |-> "Password-Checker-Script",
                 AddPadding |-> "true"]]

\* ------------------------------------------------------------------- state
VARIABLES
  passwordEntries,  \* the parsed input: <<[password, originalLineNumber]>>
  i,                \* loop index of main(), 0-based
  pc,               \* where main() is suspended
  hashCache,        \* prefix -> parsed entries
  wasCached,        \* main()'s local of the current iteration
  count,            \* the value checkPassword resolved with
  requests,         \* every outbound request, in order of issue
  inflight,         \* indices into requests that are not yet settled
  results,          \* main()'s results array
  checkedCount,
  cachedCount,
  pwnedCount,
  progress,         \* the progress lines written: <<current, total, found>>
  events,           \* timeline of the run: request, end, error, delay, hit
  report,           \* the printed results and summary
  exportRows,       \* the escaped rows built by the export, header first
  exportFile,       \* what writeFileSync left on disk
  exportError,      \* the export's catch block ran
  exitCode,         \* process exit status once main() has settled
  options,          \* the flags of argv as the export block reads them
  remoteSilent,     \* the service will never settle the outstanding request
  legacyOutput,     \* what check-pwned-passwords.js prints under Results
  csvValue,         \* escapeCsv on its own: the value handed to it
  csvEscaped,       \* escapeCsv on its own: what it returned
  csvPc,            \* escapeCsv on its own: "off", "call" or "returned"
  inputFile,        \* parseInputFile on its own: the file handed to it
  parsed,           \* parseInputFile on its own: what it returned
  parsePc           \* parseInputFile on its own: "off", "call" or the
                    \* script whose parseInputFile returned

\* the state that main() of pwncheck.js never touches
sideVars == <<legacyOutput, csvValue, csvEscaped, csvPc,
              inputFile, parsed, parsePc>>

vars == <<passwordEntries, i, pc, hashCache, wasCached, count, requests,
          inflight, results, checkedCount, cachedCount, pwnedCount, progress,
          events, report, exportRows, exportFile, exportError, exitCode,
          options, remoteSilent, legacyOutput, csvValue, csvEscaped, csvPc,
          inputFile, parsed, parsePc>>

NoOutput == [printed |-> FALSE, showPasswords |-> FALSE, lines |-> <<>>]

NoReport == [printed |-> FALSE, lines |-> <<>>, total |-> 0, safe |-> 0,
             pwned |-> 0, errors |-> 0, errorsShown |-> FALSE, apiCalls |-> 0,
             fromCache |-> 0, efficiencyTenths |-> 0]

NoOptions == [exportCsv |-> FALSE, includePasswords |-> FALSE]

NoFile == [written |-> FALSE, content |-> <<>>]

NoInput == [isCSV |-> FALSE, content |-> <<>>]

Running == 0 - 1

\* what parseInputFile can return: non-empty passwords on consecutive lines
\* after some blank lines, so that line numbers increase strictly
LeadingBlankLines == {0, 1}

EntrySeqs(n) ==
  {[k \in 1..n |-> [password |-> pw[k], originalLineNumber |-> blank + k]] :
     pw \in [1..n -> Passwords], blank \in LeadingBlankLines}

\* the state of main() before the loop, for the given parsed input
MainInit(entries) ==
  /\ passwordEntries = entries
  /\ i = 0
  /\ pc = "loop"
  /\ hashCache = <<>>
  /\ wasCached = FALSE
  /\ count = 0
  /\ requests = <<>>
  /\ inflight = {}
  /\ results = <<>>
  /\ checkedCount = 0
  /\ cachedCount = 0
  /\ pwnedCount = 0
  /\ progress = <<>>
  /\ events = <<>>
  /\ report = NoReport
  /\ exportRows = <<>>
  /\ exportFile = NoFile
  /\ exportError = FALSE
  /\ exitCode = Running
  /\ options = NoOptions
  /\ remoteSilent = FALSE
  /\ legacyOutput = NoOutput

Init ==
  /\ \E entries \in UNION {EntrySeqs(n) : n \in 0..MaxEntries} :
        MainInit(entries)
  /\ csvValue = [t |-> "string", v |-> <<>>]
  /\ csvEscaped = <<>>
  /\ csvPc = "off"
  /\ inputFile = NoInput
  /\ parsed = <<>>
  /\ parsePc = "off"

Entry == passwordEntries[i + 1]

Event(type, data) == [type |-> type, entry |-> i + 1, data |-> data]

\* a record numbered by its position instead of its source line
SuccessRecordByPosition(entry, cnt) ==
  [password |-> entry.password,
   count |-> cnt,
   originalLineNumber |-> Len(results) + 1,
   status |-> IF StrictEq(cnt, 0)
              THEN [kind |-> "Safe", times |-> 0]
              ELSE [kind |-> "PWNED", times |-> cnt]]

\* the record pushed in the try block
SuccessRecord(entry, cnt) ==
  [password |-> entry.password,
   count |-> cnt,
   originalLineNumber |-> entry.originalLineNumber,
   status |-> IF StrictEq(cnt, 0)
              THEN [kind |-> "Safe", times |-> 0]
              ELSE [kind |-> "PWNED", times |-> cnt]]

\* a failure recorded as a safe result
ErrorRecordAsSafe(entry) ==
  [password |-> entry.password,
   count |-> 0,
   originalLineNumber |-> entry.originalLineNumber,
   status |-> [kind |-> "Error", times |-> 0]]

\* the record pushed in the catch block
ErrorRecord(entry) ==
  [password |-> entry.password,
   count |-> 0 - 1,
   originalLineNumber |-> entry.originalLineNumber,
   status |-> [kind |-> "Error", times |-> 0]]

\* results.push, pwnedCount, the progress line and the loop increment
PushSuccess(cnt) ==
  LET found == IF Gt(cnt, 0) THEN pwnedCount + 1 ELSE pwnedCount
  IN  /\ results' = Append(results, SuccessRecord(Entry, cnt))
      /\ pwnedCount' = found
      /\ progress' = Append(progress, <<i + 1, Len(passwordEntries), found>>)
      /\ i' = i + 1
      /\ pc' = "loop"

\* one iteration whose prefix is cached: checkPassword returns from the
\* cache, no request, no delay
EntryCached ==
  /\ pc = "loop"
  /\ i < Len(passwordEntries)
  /\ CacheHas(hashCache, HashPrefix(Entry.password))
  /\ wasCached' = TRUE
  /\ count' = MatchCount(hashCache[HashPrefix(Entry.password)],
                         HashSuffix(Entry.password))
  /\ cachedCount' = cachedCount + 1
  /\ PushSuccess(count')
  /\ events' = Append(events, Event("hit", <<>>))
  /\ UNCHANGED <<sideVars, remoteSilent, passwordEntries, hashCache, requests, inflight,
                 checkedCount, report, exportRows, exportFile, exportError,
                 exitCode, options>>

\* an iteration that issues its request and goes on without awaiting it
EntryRequestNoAwait ==
  /\ pc = "loop"
  /\ i < Len(passwordEntries)
  /\ ~CacheHas(hashCache, HashPrefix(Entry.password))
  /\ wasCached' = FALSE
  /\ requests' = Append(requests, RequestOptions(Entry.password))
  /\ inflight' = inflight \cup {Len(requests) + 1}
  /\ events' = Append(events, Event("request", <<>>))
  /\ i' = i + 1
  /\ UNCHANGED <<sideVars, remoteSilent, passwordEntries, pc, hashCache, count, results,
                 checkedCount, cachedCount, pwnedCount, progress, report,
                 exportRows, exportFile, exportError, exitCode, options>>

\* one iteration whose prefix is not cached: checkPassword issues the
\* request and main() suspends on the await
EntryRequest ==
  /\ pc = "loop"
  /\ i < Len(passwordEntries)
  /\ ~CacheHas(hashCache, HashPrefix(Entry.password))
  /\ wasCached' = FALSE
  /\ requests' = Append(requests, RequestOptions(Entry.password))
  /\ inflight' = inflight \cup {Len(requests) + 1}
  /\ events' = Append(events, Event("request", <<>>))
  /\ pc' = "awaitResponse"
  /\ UNCHANGED <<sideVars, remoteSilent, passwordEntries, i, hashCache, count, results,
                 checkedCount, cachedCount, pwnedCount, progress, report,
                 exportRows, exportFile, exportError, exitCode, options>>

\* res 'end': parse, cache, resolve; main() resumes, counts the call and
\* starts the delay
OnEnd(data) ==
  /\ pc = "awaitResponse"
  /\ ~remoteSilent
  /\ LET entries == ParseResponse(data)
     IN  /\ hashCache' = CacheSet(hashCache, HashPrefix(Entry.password), entries)
         /\ count' = MatchCount(entries, HashSuffix(Entry.password))
  /\ inflight' = inflight \ {Len(requests)}
  /\ events' = Append(events, Event("end", data))
  /\ IF ~wasCached
     THEN /\ checkedCount' = checkedCount + 1
          /\ pc' = "awaitDelay"
          /\ UNCHANGED <<cachedCount, results, pwnedCount, progress, i>>
     ELSE /\ cachedCount' = cachedCount + 1
          /\ PushSuccess(count')
          /\ UNCHANGED checkedCount
  /\ UNCHANGED <<sideVars, remoteSilent, passwordEntries, wasCached, requests, report, exportRows,
                 exportFile, exportError, exitCode, options>>

\* a failure that leaves an empty entry set behind for the prefix
OnErrorPoisons ==
  /\ pc = "awaitResponse"
  /\ ~remoteSilent
  /\ hashCache' = CacheSet(hashCache, HashPrefix(Entry.password), <<>>)
  /\ inflight' = inflight \ {Len(requests)}
  /\ results' = Append(results, ErrorRecord(Entry))
  /\ events' = Append(events, Event("error", <<>>))
  /\ i' = i + 1
  /\ pc' = "loop"
  /\ UNCHANGED <<sideVars, remoteSilent, passwordEntries, wasCached, count, requests,
                 checkedCount, cachedCount, pwnedCount, progress, report,
                 exportRows, exportFile, exportError, exitCode, options>>

\* request 'error': reject; main() resumes in the catch block
OnError ==
  /\ pc = "awaitResponse"
  /\ ~remoteSilent
  /\ inflight' = inflight \ {Len(requests)}
  /\ results' = Append(results, ErrorRecord(Entry))
  /\ events' = Append(events, Event("error", <<>>))
  /\ i' = i + 1
  /\ pc' = "loop"
  /\ UNCHANGED <<sideVars, remoteSilent, passwordEntries, hashCache, wasCached, count, requests,
                 checkedCount, cachedCount, pwnedCount, progress, report,
                 exportRows, exportFile, exportError, exitCode, options>>

\* the service goes silent on the outstanding request: neither 'end' nor
\* 'error' will ever be emitted.  checkPassword sets no timeout on the
\* request and registers no 'timeout' handler, so nothing else is pending.
ServiceSilent ==
  /\ pc = "awaitResponse"
  /\ ~remoteSilent
  /\ remoteSilent' = TRUE
  /\ UNCHANGED <<sideVars, passwordEntries, i, pc, hashCache, wasCached,
                 count, requests, inflight, results, checkedCount,
                 cachedCount, pwnedCount, progress, events, report,
                 exportRows, exportFile, exportError, exitCode, options>>

\* the timer of delay(API_RATE_LIMIT_DELAY_MS) fires; the try block goes on
DelayDone ==
  /\ pc = "awaitDelay"
  /\ PushSuccess(count)
  /\ events' = Append(events, Event("delay", <<>>))
  /\ UNCHANGED <<sideVars, remoteSilent, passwordEntries, hashCache, wasCached, count, requests,
                 inflight, checkedCount, cachedCount, report, exportRows,
                 exportFile, exportError, exitCode, options>>

\* ------------------------------------------------------- report and export
\* results.filter((r) => r.count === 0).length
SafeCount(recs) ==
  Cardinality({k \in 1..Len(recs) : StrictEq(recs[k].count, 0)})

\* results.filter((r) => r.count > 0).length
PwnedCount(recs) ==
  Cardinality({k \in 1..Len(recs) : Gt(recs[k].count, 0)})

\* results.filter((r) => r.count === -1).length
ErrorCount(recs) ==
  Cardinality({k \in 1..Len(recs) : StrictEq(recs[k].count, 0 - 1)})

\* the same division without the guard for an empty batch: 0 / 0
EfficiencyTenthsUnguarded(cached, total) ==
  IF total > 0 THEN (2000 * cached + total) \div (2 * total) ELSE NaN

\* ((cachedCount / total) * 100).toFixed(1), in tenths of a percent
EfficiencyTenths(cached, total) ==
  IF total > 0 THEN (2000 * cached + total) \div (2 * total) ELSE 0

\* the printing of the results and of the summary, after the loop
Summary ==
  /\ pc = "loop"
  /\ i >= Len(passwordEntries)
  /\ LET errors == ErrorCount(results)
     IN  report' =
           [printed |-> TRUE,
            lines |-> [k \in 1..Len(results) |->
                         <<results[k].originalLineNumber, results[k].status>>],
            total |-> Len(passwordEntries),
            safe |-> SafeCount(results),
            pwned |-> PwnedCount(results),
            errors |-> errors,
            errorsShown |-> errors > 0,
            apiCalls |-> checkedCount,
            fromCache |-> cachedCount,
            efficiencyTenths |->
              EfficiencyTenths(cachedCount, Len(passwordEntries))]
  /\ pc' = "export"
  /\ UNCHANGED <<sideVars, remoteSilent, passwordEntries, i, hashCache, wasCached, count, requests,
                 inflight, results, checkedCount, cachedCount, pwnedCount,
                 progress, events, exportRows, exportFile, exportError,
                 exitCode, options>>

Num(n) == [t |-> "number", v |-> n]
Str(s) == [t |-> "string", v |-> s]

\* String(value)
JsString(value) ==
  IF value.t = "number" THEN NumberToString(value.v) ELSE value.v

RECURSIVE DoubleQuotes(_)
DoubleQuotes(s) ==
  IF s = <<>> THEN <<>>
  ELSE IF s[1] = "\"" THEN <<"\"", "\"">> \o DoubleQuotes(Tail(s))
       ELSE <<s[1]>> \o DoubleQuotes(Tail(s))

\* an escape that wraps the value but leaves its quotes single
escapeCsvNoDoubling(value) ==
  IF value.t = "undefined" THEN <<>>
  ELSE LET str == JsString(value)
       IN  IF \E k \in 1..Len(str) : str[k] \in {"\"", ",", LF, CR}
           THEN <<"\"">> \o str \o <<"\"">>
           ELSE str

escapeCsv(value) ==
  IF value.t = "undefined" THEN <<>>
  ELSE LET str == JsString(value)
       IN  IF \E k \in 1..Len(str) : str[k] \in {"\"", ",", LF, CR}
           THEN <<"\"">> \o DoubleQuotes(str) \o <<"\"">>
           ELSE str

HeaderLine   == <<"l", "i", "n", "e", "_", "n", "u", "m", "b", "e", "r">>
HeaderCount  == <<"p", "w", "n", "e", "d", "_", "c", "o", "u", "n", "t">>
HeaderPasswd == <<"p", "a", "s", "s", "w", "o", "r", "d">>

Headers(withPasswords) ==
  IF withPasswords THEN <<HeaderLine, HeaderCount, HeaderPasswd>>
  ELSE <<HeaderLine, HeaderCount>>

\* a password field filled for every record that is not an error
PasswordFieldUnlessError(result) ==
  IF Ge(result.count, 0) THEN Str(result.password) ELSE Str(<<>>)

\* result.count > 0 ? result.password || '' : ''
PasswordField(result) ==
  IF Gt(result.count, 0) THEN Str(result.password) ELSE Str(<<>>)

\* the row array of one result, before escaping
Row(result, withPasswords) ==
  LET base == <<Num(result.originalLineNumber),
                IF Ge(result.count, 0) THEN Num(result.count) ELSE Str(<<>>)>>
  IN  IF withPasswords THEN Append(base, PasswordField(result)) ELSE base

EscapedRow(result, withPasswords) ==
  LET row == Row(result, withPasswords)
  IN  [k \in 1..Len(row) |-> escapeCsv(row[k])]

\* an export whose write failure fails the run
ExportFailureIsFatal(exportCsv, includePasswords, writeOk) ==
  /\ pc = "export"
  /\ options' = [exportCsv |-> exportCsv, includePasswords |-> includePasswords]
  /\ IF exportCsv
     THEN LET rows == <<Headers(includePasswords)>> \o
                      [k \in 1..Len(results) |->
                         EscapedRow(results[k], includePasswords)]
              lines == [k \in 1..Len(rows) |-> join(rows[k], <<",">>)]
          IN  /\ exportRows' = rows
              /\ exportFile' = IF writeOk
                               THEN [written |-> TRUE,
                                     content |-> join(lines, <<LF>>)]
                               ELSE exportFile
              /\ exportError' = ~writeOk
     ELSE /\ writeOk
          /\ UNCHANGED <<exportRows, exportFile, exportError>>
  /\ exitCode' = IF exportCsv /\ ~writeOk THEN 1 ELSE 0
  /\ pc' = "done"
  /\ UNCHANGED <<sideVars, remoteSilent, passwordEntries, i, hashCache, wasCached, count, requests,
                 inflight, results, checkedCount, cachedCount, pwnedCount,
                 progress, events, report>>

\* the export block and the end of main().  exportCsv and includePasswords
\* are the flags of argv: main() reads them before the loop and uses them
\* here only, so they are drawn here.  writeOk is whether writeFileSync
\* returned or threw.
Export(exportCsv, includePasswords, writeOk) ==
  /\ pc = "export"
  /\ options' = [exportCsv |-> exportCsv, includePasswords |-> includePasswords]
  /\ IF exportCsv
     THEN LET rows == <<Headers(includePasswords)>> \o
                      [k \in 1..Len(results) |->
                         EscapedRow(results[k], includePasswords)]
              lines == [k \in 1..Len(rows) |-> join(rows[k], <<",">>)]
          IN  /\ exportRows' = rows
              /\ exportFile' = IF writeOk
                               THEN [written |-> TRUE,
                                     content |-> join(lines, <<LF>>)]
                               ELSE exportFile
              /\ exportError' = ~writeOk
     ELSE /\ writeOk
          /\ UNCHANGED <<exportRows, exportFile, exportError>>
  /\ exitCode' = 0
  /\ pc' = "done"
  /\ UNCHANGED <<sideVars, remoteSilent, passwordEntries, i, hashCache, wasCached, count, requests,
                 inflight, results, checkedCount, cachedCount, pwnedCount,
                 progress, events, report>>

Next ==
  \/ EntryCached
  \/ EntryRequest
  \/ \E data \in Bodies : OnEnd(data)
  \/ OnError
  \/ ServiceSilent
  \/ DelayDone
  \/ Summary
  \/ \E exportCsv, includePasswords, writeOk \in BOOLEAN :
        Export(exportCsv, includePasswords, writeOk)

Spec == Init /\ [][Next]_vars

\* ------------------------------------------- check-pwned-passwords.js
\* The older script has the same checkPassword and the same loop (its lines
\* 32-82 and 168-207); it differs in what it prints after the loop.

\* the N of "Line N" for the result at the 0-based index of the results array
LegacyLineNumber(index) == index + 1

\* one printed result: "Line <index + 1>: <status>" and, when shown, the
\* "Password:" line under it
LegacyLine(k, showPasswords) ==
  LET shown == showPasswords /\ (Gt(results[k].count, 0)
                                  \/ StrictEq(results[k].count, 0 - 1))
  IN  [lineNumber |-> LegacyLineNumber(k - 1),
       status |-> results[k].status,
       passwordShown |-> shown,
       password |-> IF shown THEN results[k].password ELSE <<>>]

\* the results and the summary printed after the loop; showPasswords is the
\* --show-passwords flag of argv
LegacyReport(showPasswords) ==
  /\ pc = "loop"
  /\ i >= Len(passwordEntries)
  /\ legacyOutput' =
       [printed |-> TRUE,
        showPasswords |-> showPasswords,
        lines |-> [k \in 1..Len(results) |-> LegacyLine(k, showPasswords)]]
  /\ LET errors == ErrorCount(results)
     IN  report' =
           [printed |-> TRUE,
            lines |-> [k \in 1..Len(results) |-> <<k, results[k].status>>],
            total |-> Len(passwordEntries),
            safe |-> SafeCount(results),
            pwned |-> PwnedCount(results),
            errors |-> errors,
            errorsShown |-> errors > 0,
            apiCalls |-> checkedCount,
            fromCache |-> cachedCount,
            efficiencyTenths |->
              EfficiencyTenths(cachedCount, Len(passwordEntries))]
  /\ exitCode' = 0
  /\ pc' = "done"
  /\ UNCHANGED <<csvValue, csvEscaped, csvPc, inputFile, parsed, parsePc,
                 remoteSilent, passwordEntries,
                 i, hashCache, wasCached, count, requests, inflight, results,
                 checkedCount, cachedCount, pwnedCount, progress, events,
                 exportRows, exportFile, exportError, options>>

NextLegacy ==
  \/ EntryCached
  \/ EntryRequest
  \/ \E data \in Bodies : OnEnd(data)
  \/ OnError
  \/ ServiceSilent
  \/ DelayDone
  \/ \E showPasswords \in BOOLEAN : LegacyReport(showPasswords)

SpecLegacy == Init /\ [][NextLegacy]_vars

\* ------------------------------------------------------ escapeCsv on its own
mainVars == <<passwordEntries, i, pc, hashCache, wasCached, count, requests,
              inflight, results, checkedCount, cachedCount, pwnedCount,
              progress, events, report, exportRows, exportFile, exportError,
              exitCode, options, remoteSilent, legacyOutput>>

CsvChars == {"a", ",", "\"", CR, LF}

CsvStrings == UNION {[1..n -> CsvChars] : n \in 0..MaxCsvLen} \cup Passwords

\* the values a row can hold: strings and numbers
CsvValues == {Str(str) : str \in CsvStrings} \cup {Num(0), Num(12)}

InitCsv ==
  /\ MainInit(<<>>)
  /\ csvValue \in CsvValues
  /\ csvEscaped = <<>>
  /\ csvPc = "call"
  /\ inputFile = NoInput
  /\ parsed = <<>>
  /\ parsePc = "off"

EscapeCall ==
  /\ csvPc = "call"
  /\ csvEscaped' = escapeCsv(csvValue)
  /\ csvPc' = "returned"
  /\ UNCHANGED <<mainVars, csvValue, inputFile, parsed, parsePc>>

NextCsv == EscapeCall

SpecCsv == InitCsv /\ [][NextCsv]_vars

\* -------------------------------------------------- parseInputFile on its own
\* s.indexOf(ch, from), 0-based as in JavaScript; -1 when absent
indexOf(s, ch, from) ==
  LET at == {n \in from..(Len(s) - 1) : s[n + 1] = ch}
  IN  IF at = {} THEN 0 - 1 ELSE CHOOSE n \in at : \A m \in at : n <= m

\* s.replace(/""/g, '"')
RECURSIVE ReplaceDoubledQuotes(_)
ReplaceDoubledQuotes(s) ==
  IF s = <<>> THEN <<>>
  ELSE IF Len(s) >= 2 /\ s[1] = "\"" /\ s[2] = "\""
       THEN <<"\"">> \o ReplaceDoubledQuotes(SubSeq(s, 3, Len(s)))
       ELSE <<s[1]>> \o ReplaceDoubledQuotes(Tail(s))

\* the while loop over a line that starts with a quote; <<>> stands for both
\* the empty string and a password left undefined, which the callers treat alike
RECURSIVE QuotedLoop(_, _)
QuotedLoop(line, endQuoteIndex) ==
  IF endQuoteIndex >= Len(line) THEN <<>>
  ELSE LET found == indexOf(line, "\"", endQuoteIndex)
       IN  IF found = 0 - 1 THEN substring(line, 1, Len(line))
           ELSE IF found + 1 < Len(line) /\ line[found + 2] = "\""
                THEN QuotedLoop(line, found + 2)
                ELSE ReplaceDoubledQuotes(substring(line, 1, found))

\* the password pwncheck.js takes from a trimmed, non-blank line
LinePassword(trimmedLine, isCSV) ==
  IF isCSV
  THEN IF trimmedLine[1] = "\""
       THEN LET password == QuotedLoop(trimmedLine, 1)
            IN  IF password = <<>>
                THEN substring(trimmedLine, 1, Len(trimmedLine))
                ELSE password
       ELSE split(trimmedLine, <<",">>)[1]
  ELSE trimmedLine

\* lines.forEach((line, index) => ...) of pwncheck.js, from the given index on
RECURSIVE ForEachLine(_, _, _)
ForEachLine(lines, index, isCSV) ==
  IF index >= Len(lines) THEN <<>>
  ELSE LET trimmedLine == trim(lines[index + 1])
           password == IF trimmedLine = <<>> THEN <<>>
                       ELSE LinePassword(trimmedLine, isCSV)
       IN  (IF password # <<>>
            THEN <<[password |-> password, originalLineNumber |-> index + 1]>>
            ELSE <<>>)
           \o ForEachLine(lines, index + 1, isCSV)

\* parseInputFile of pwncheck.js
parseInputFile(file) == ForEachLine(split(file.content, <<LF>>), 0, file.isCSV)

\* the password check-pwned-passwords.js takes from a line of a CSV file
LegacyLinePassword(line) ==
  IF line[1] = "\"" THEN QuotedLoop(line, 1) ELSE split(line, <<",">>)[1]

\* parseInputFile of check-pwned-passwords.js: strings only
legacyParseInputFile(file) ==
  LET raw == split(file.content, <<LF>>)
      lines == SelectSeq([k \in 1..Len(raw) |-> trim(raw[k])],
                         LAMBDA line : line # <<>>)
  IN  IF file.isCSV
      THEN SelectSeq([k \in 1..Len(lines) |-> LegacyLinePassword(lines[k])],
                     LAMBDA p : p # <<>>)
      ELSE lines

FileChars == {"a", ",", "\"", " ", LF}

FileContents == UNION {[1..n -> FileChars] : n \in 0..MaxFileLen}

InitParse ==
  /\ MainInit(<<>>)
  /\ csvValue = [t |-> "string", v |-> <<>>]
  /\ csvEscaped = <<>>
  /\ csvPc = "off"
  /\ inputFile \in [isCSV : BOOLEAN, content : FileContents]
  /\ parsed = <<>>
  /\ parsePc = "call"

ParseCall ==
  /\ parsePc = "call"
  /\ parsed' = parseInputFile(inputFile)
  /\ parsePc' = "pwncheck.js"
  /\ UNCHANGED <<mainVars, csvValue, csvEscaped, csvPc, inputFile>>

LegacyParseCall ==
  /\ parsePc = "call"
  /\ parsed' = legacyParseInputFile(inputFile)
  /\ parsePc' = "check-pwned-passwords.js"
  /\ UNCHANGED <<mainVars, csvValue, csvEscaped, csvPc, inputFile>>

NextParse == ParseCall \/ LegacyParseCall

SpecParse == InitParse /\ [][NextParse]_vars

\* ------------------------------------------------------------------ claims
PrefixOf(k) == HashPrefix(passwordEntries[k].password)

SuffixOf(k) == HashSuffix(passwordEntries[k].password)

EventsOfType(type) == {k \in 1..Len(events) : events[k].type = type}

RangePath(prefix) == <<"/", "r", "a", "n", "g", "e", "/">> \o prefix

\* the entries whose processing has started
Started == IF pc \in {"awaitResponse", "awaitDelay"} THEN i + 1 ELSE i

\* C1 as stated: whatever happens, the remote service is called at most once
\* for each prefix.
C1_AtMostOneCallPerPrefix ==
  \A a, b \in 1..Len(requests) :
     requests[a].path = requests[b].path => a = b

\* C1, amended: once a fetch for a prefix has succeeded no later request is
\* issued for that prefix and every later entry with that prefix is a cache
\* hit, so a prefix is fetched successfully at most once; with no failed
\* request the number of requests is the number of distinct prefixes among
\* the entries started so far.
C1_FetchedPrefixNotRefetched ==
  /\ \A a \in EventsOfType("end") : \A b \in (a + 1)..Len(events) :
        PrefixOf(events[a].entry) = PrefixOf(events[b].entry)
          => /\ events[b].type # "request"
             /\ events[b].type # "end"
             /\ events[b].entry > events[a].entry => events[b].type = "hit"
  /\ EventsOfType("error") = {}
        => Len(requests) = Cardinality({PrefixOf(k) : k \in 1..Started})

C1_Witness ==
  /\ pc = "done"
  /\ Len(requests) = 1
  /\ \E a \in EventsOfType("end") : \E b \in EventsOfType("hit") :
        /\ a < b
        /\ PrefixOf(events[a].entry) = PrefixOf(events[b].entry)
        /\ passwordEntries[events[a].entry].password
             # passwordEntries[events[b].entry].password

\* the prefixes of the entries, which is all a request may depend on
PrefixSeq == [k \in 1..Len(passwordEntries) |-> PrefixOf(k)]

RECURSIVE RequestsFromPrefixes(_, _)
RequestsFromPrefixes(prefixes, evs) ==
  IF evs = <<>> THEN <<>>
  ELSE IF evs[1].type = "request"
       THEN <<[hostname |-> "api.pwnedpasswords.com",
               path |-> RangePath(prefixes[evs[1].entry]),
               method |-> "GET",
               headers |-> [UserAgent |-> "Password-Checker-Script",
                            AddPadding |-> "true"]]>>
            \o RequestsFromPrefixes(prefixes, Tail(evs))
       ELSE RequestsFromPrefixes(prefixes, Tail(evs))

\* C2: the sequence of outbound requests is determined by the sequence of
\* prefixes of the entries and by the remote outcomes alone; each path is
\* /range/ followed by the 5 prefix characters and nothing else.
C2_RequestsDependOnPrefixOnly ==
  /\ requests = RequestsFromPrefixes(PrefixSeq, events)
  /\ \A k \in 1..Len(requests) :
        Len(requests[k].path) = 7 + HASH_PREFIX_LENGTH

C2_Witness ==
  \E a, b \in EventsOfType("request") :
     /\ a < b
     /\ passwordEntries[events[a].entry].password
          # passwordEntries[events[b].entry].password
     /\ SuffixOf(events[a].entry) # SuffixOf(events[b].entry)
     /\ requests[1] = requests[2]

\* the step in which a request fails
ErrorStep ==
  /\ pc = "awaitResponse"
  /\ Len(events') = Len(events) + 1
  /\ events'[Len(events')].type = "error"

\* C3: a failed remote call leaves hashCache as it was, with the failed prefix
\* absent, and the next entry with that prefix issues a fresh request.
C3_FailureLeavesCache ==
  /\ [][ErrorStep => /\ hashCache' = hashCache
                     /\ ~CacheHas(hashCache', PrefixOf(i + 1))]_vars
  /\ [](\A a \in EventsOfType("error") :
          a < Len(events) /\ PrefixOf(events[a + 1].entry) = PrefixOf(events[a].entry)
            => events[a + 1].type = "request")

C3_Witness ==
  \E a \in EventsOfType("error") :
     /\ a < Len(events)
     /\ PrefixOf(events[a + 1].entry) = PrefixOf(events[a].entry)
     /\ events[a + 1].type = "request"
     /\ ~CacheHas(hashCache, PrefixOf(events[a].entry))

\* a response body that is not a list of SUFFIX:COUNT lines: some non-blank
\* line has no colon, more than one colon, or a count that is not a number
Malformed(data) ==
  LET lines == SelectSeq(split(data, <<CR, LF>>), LAMBDA l : trim(l) # <<>>)
  IN  \E k \in 1..Len(lines) :
         LET parts == split(lines[k], <<":">>)
         IN  \/ Len(parts) # 2
             \/ trim(parts[2]) = <<>>
             \/ \E c \in 1..Len(trim(parts[2])) : ~IsDigit(trim(parts[2])[c])

\* C4: a malformed response body surfaces as a failure of the entry (count
\* -1) and nothing is stored in the cache for its prefix.
C4_MalformedIsFailure ==
  \A a \in EventsOfType("end") :
     Malformed(events[a].data)
       => /\ ~CacheHas(hashCache, PrefixOf(events[a].entry))
          /\ events[a].entry <= Len(results)
               => results[events[a].entry].count = 0 - 1

\* C5: one record per processed entry whatever fails; a failed entry gets
\* count -1, the loop goes on with the next entry, and each failure raises
\* the number of error records by exactly 1.
C5_FailureContinuesBatch ==
  /\ [](/\ Len(results) = i
        /\ pc \in {"export", "done"} => Len(results) = Len(passwordEntries)
        /\ \A a \in EventsOfType("error") :
              /\ events[a].entry <= Len(results)
              /\ results[events[a].entry].count = 0 - 1
        /\ report.printed => report.errors >= Cardinality(EventsOfType("error")))
  /\ [][ErrorStep => /\ Len(results') = Len(results) + 1
                     /\ ErrorCount(results') = ErrorCount(results) + 1
                     /\ i' = i + 1
                     /\ pc' = "loop"]_vars

C5_Witness ==
  /\ pc = "done"
  /\ Len(results) = 3
  /\ events[2].type = "error"
  /\ results[1].count = 0 - 1
  /\ results[2].count > 0
  /\ results[3].count = 0 - 1
  /\ report.errors = 2

\* C6: results[k] carries the password and the line number of entry k at
\* every point of the run, and at the end there is one result per entry.
C6_ResultsFollowInput ==
  /\ Len(results) <= Len(passwordEntries)
  /\ \A k \in 1..Len(results) :
        /\ results[k].password = passwordEntries[k].password
        /\ results[k].originalLineNumber = passwordEntries[k].originalLineNumber
  /\ pc = "done" => Len(results) = Len(passwordEntries)

C6_Witness ==
  /\ pc = "done"
  /\ Len(results) = 3
  /\ results[1].originalLineNumber = 2
  /\ results[3].originalLineNumber = 4
  /\ results[1].password # results[3].password
  /\ EventsOfType("hit") # {}
  /\ EventsOfType("error") # {}
  /\ EventsOfType("delay") # {}

\* C7: any two consecutive remote requests of a run are separated by a
\* completed delay, and entries served from the cache incur no delay.
C7_RequestsSeparatedByDelay ==
  /\ \A a, b \in EventsOfType("request") :
        a < b => \E c \in EventsOfType("delay") : a < c /\ c < b
  /\ \A h \in EventsOfType("hit") : \A c \in EventsOfType("delay") :
        events[c].entry # events[h].entry

\* C8: at most one request is outstanding; while one is, main() is suspended
\* on it, and every request is settled before the next entry is looked at.
C8_OneOutstandingRequest ==
  /\ Cardinality(inflight) <= 1
  /\ inflight # {} <=> pc = "awaitResponse"
  /\ \A a \in EventsOfType("request") :
        a < Len(events) => /\ events[a + 1].type \in {"end", "error"}
                           /\ events[a + 1].entry = events[a].entry

C8_Witness ==
  /\ inflight = {2}
  /\ PrefixOf(events[1].entry) = PrefixOf(i + 1)
  /\ events[2].type = "error"

NoMatch(entries, suffix) ==
  \A k \in 1..Len(entries) : entries[k].suffix # suffix

\* C9: a fetched set without the password's suffix gives count 0, not an
\* error; the set is stored, and a later entry with the same password is a
\* cache hit with count 0 and no request.
C9_AbsentSuffixIsSafe ==
  \A a \in EventsOfType("end") :
     LET e == events[a].entry
     IN  NoMatch(ParseResponse(events[a].data), SuffixOf(e))
           => /\ CacheHas(hashCache, PrefixOf(e))
              /\ hashCache[PrefixOf(e)] = ParseResponse(events[a].data)
              /\ e <= Len(results) => /\ results[e].count = 0
                                      /\ results[e].status.kind = "Safe"
              /\ \A b \in (a + 1)..Len(events) :
                    /\ events[b].entry > e
                    /\ passwordEntries[events[b].entry].password
                         = passwordEntries[e].password
                    => /\ events[b].type = "hit"
                       /\ events[b].entry <= Len(results)
                       /\ results[events[b].entry].count = 0

C9_Witness ==
  /\ Len(results) >= 2
  /\ passwordEntries[1].password = passwordEntries[2].password
  /\ events[2].type = "end"
  /\ events[2].data = BodyOther
  /\ passwordEntries[1].password = PwA
  /\ events[4].type = "hit"
  /\ results[2].count = 0
  /\ Len(requests) = 1

\* C10: with includePasswords the password field of a row is filled exactly
\* for records with count > 0 and empty for safe and error records; without
\* includePasswords no row has a password column.
C10_PasswordOnlyForPwned ==
  exportRows # <<>> =>
    /\ Len(exportRows) = Len(results) + 1
    /\ \A k \in 1..Len(results) :
          LET row == exportRows[k + 1]
          IN  IF options.includePasswords
              THEN /\ Len(row) = 3
                   /\ row[3] # <<>> <=> Gt(results[k].count, 0)
                   /\ results[k].count \in {0, 0 - 1} => row[3] = <<>>
              ELSE Len(row) = 2
    /\ ~options.includePasswords => Len(exportRows[1]) = 2

C10_Witness ==
  /\ pc = "done"
  /\ options.includePasswords
  /\ exportFile.written
  /\ Len(results) = 3
  /\ results[1].count > 0
  /\ results[2].count = 0
  /\ results[3].count = 0 - 1
  /\ exportRows[2][3] # <<>>
  /\ exportRows[3][3] = <<>>
  /\ exportRows[4][3] = <<>>

\* the entries whose lookup was rejected
Failed(k) == \E a \in EventsOfType("error") : events[a].entry = k

\* C11: one row per record, in record order, after the header; pwned_count
\* is empty exactly for error entries and is the numeric count otherwise.
C11_CountFieldEmptyIffError ==
  exportRows # <<>> =>
    /\ Len(exportRows) = Len(results) + 1
    /\ \A k \in 1..Len(results) :
          LET row == exportRows[k + 1]
          IN  /\ row[1] = NumberToString(results[k].originalLineNumber)
              /\ row[2] = <<>> <=> Failed(k)
              /\ ~Failed(k) => row[2] = NumberToString(results[k].count)

Quote == "\""

NeedsQuoting(str) == \E k \in 1..Len(str) : str[k] \in {Quote, ",", CR, LF}

Malformation == <<"malformed">>

\* the inside of a quoted CSV field read back: "" is one quote, a quote on
\* its own does not belong there
RECURSIVE Undouble(_)
Undouble(s) ==
  IF s = <<>> THEN <<>>
  ELSE IF s[1] # Quote
       THEN LET rest == Undouble(Tail(s))
            IN  IF rest = Malformation THEN Malformation ELSE <<s[1]>> \o rest
       ELSE IF Len(s) >= 2 /\ s[2] = Quote
            THEN LET rest == Undouble(SubSeq(s, 3, Len(s)))
                 IN  IF rest = Malformation THEN Malformation
                     ELSE <<Quote>> \o rest
            ELSE Malformation

\* one CSV field read back by the standard rules
CsvUnescape(field) ==
  IF field # <<>> /\ field[1] = Quote
  THEN IF Len(field) >= 2 /\ field[Len(field)] = Quote
       THEN Undouble(SubSeq(field, 2, Len(field) - 1))
       ELSE Malformation
  ELSE IF NeedsQuoting(field) THEN Malformation ELSE field

\* the string form of the value handed to escapeCsv
CsvValueText ==
  IF csvValue.t = "string" THEN csvValue.v ELSE NumberToString(csvValue.v)

\* C12: escapeCsv returns the value unchanged when it holds no comma, quote,
\* CR or LF; otherwise the value in double quotes with every quote doubled;
\* reading the field back by the standard CSV rules gives the value again;
\* a,"b" becomes "a,""b""".
C12_EscapeCsvRoundTrip ==
  csvPc = "returned" =>
    /\ ~NeedsQuoting(CsvValueText) => csvEscaped = CsvValueText
    /\ NeedsQuoting(CsvValueText) =>
         /\ csvEscaped[1] = Quote
         /\ csvEscaped[Len(csvEscaped)] = Quote
         /\ Len(csvEscaped) = Len(CsvValueText) + 2
              + Cardinality({k \in 1..Len(CsvValueText) : CsvValueText[k] = Quote})
    /\ CsvUnescape(csvEscaped) = CsvValueText
    /\ csvValue = Str(PwC) =>
         csvEscaped = <<Quote, "a", ",", Quote, Quote, "b", Quote, Quote, Quote>>

C12_Witness ==
  /\ csvPc = "returned"
  /\ csvValue = Str(PwC)
  /\ csvEscaped = <<Quote, "a", ",", Quote, Quote, "b", Quote, Quote, Quote>>
  /\ CsvUnescape(csvEscaped) = PwC

\* C13: the reported cache efficiency is cache hits over total entries (as a
\* percentage with one decimal), and 0 for an empty batch, whose report
\* shows 0 total, 0 safe, 0 breached and 0 errors.
C13_CacheEfficiency ==
  report.printed =>
    LET hits  == Cardinality(EventsOfType("hit"))
        total == Len(passwordEntries)
        eff   == report.efficiencyTenths
    IN  /\ report.total = total
        /\ report.fromCache = hits
        /\ eff # NaN
        /\ total > 0 => /\ 2 * total * eff - total <= 2000 * hits
                        /\ 2000 * hits < 2 * total * eff + total
        /\ total = 0 => /\ eff = 0
                        /\ report.safe = 0
                        /\ report.pwned = 0
                        /\ report.errors = 0
                        /\ ~report.errorsShown

C13_Witness ==
  /\ report.printed
  /\ report.total = 3
  /\ report.fromCache = 2
  /\ report.efficiencyTenths = 667

\* the records among the first k with count > 0
BreachedUpTo(k) == Cardinality({j \in 1..k : Gt(results[j].count, 0)})

\* C14: after each processed entry, failed or not, exactly one progress
\* notification (index from 1, total, breached so far) has been emitted, in
\* index order, and the last one carries index = total.
C14_ProgressAfterEveryEntry ==
  /\ Len(progress) = Len(results)
  /\ \A k \in 1..Len(progress) :
        progress[k] = <<k, Len(passwordEntries), BreachedUpTo(k)>>
  /\ pc \in {"export", "done"} /\ passwordEntries # <<>>
       => /\ progress # <<>>
          /\ progress[Len(progress)][1] = Len(passwordEntries)

\* C15: every remote call has a bounded wait, so the batch is never stuck
\* before it completes: also when the service stays silent on a request,
\* some step (the expiry that fails the lookup) can still be taken.
C15_WaitIsBounded == pc # "done" => ENABLED Next

\* the parsed response with its suffixes normalized to uppercase
UpperEntries(data) ==
  LET entries == ParseResponse(data)
  IN  [k \in 1..Len(entries) |->
         [suffix |-> toUpperCase(entries[k].suffix), count |-> entries[k].count]]

\* the count of the first line whose suffix is the given one, 0 without one
CountOfLine(entries, suffix) ==
  LET hits == {k \in 1..Len(entries) : entries[k].suffix = suffix}
  IN  IF hits = {} THEN 0
      ELSE entries[CHOOSE k \in hits : \A j \in hits : k <= j].count

\* C16: on a cache miss the count is that of the response line whose suffix
\* equals the digest suffix without regard to case, blank lines discarded; a
\* suffix listed in lowercase still yields its line's count.
C16_CaseInsensitiveMatch ==
  \A a \in EventsOfType("end") :
     events[a].entry <= Len(results)
       => results[events[a].entry].count
            = CountOfLine(UpperEntries(events[a].data), SuffixOf(events[a].entry))

\* C17: the reported number of API calls is the number of remote requests
\* issued in the run, failed ones included, and the reported number of
\* cache results is the number of entries answered without a request.
C17_ReportedCallsAreRequests ==
  report.printed =>
    /\ report.apiCalls = Len(requests)
    /\ report.fromCache = Cardinality(EventsOfType("hit"))
    /\ report.fromCache
         = Cardinality({k \in 1..Len(passwordEntries) :
                          \A a \in EventsOfType("request") : events[a].entry # k})

\* the successful fetches made for a prefix
FetchesOf(prefix) ==
  {a \in EventsOfType("end") : PrefixOf(events[a].entry) = prefix}

\* C18: a prefix once cached is never removed or changed by a later step and
\* the set of cached prefixes only grows; the set stored for a prefix is the
\* whole parsed response of the one fetch made for it.
C18_CacheAdditiveOnly ==
  /\ [][\A p \in DOMAIN hashCache :
          /\ p \in DOMAIN hashCache'
          /\ hashCache'[p] = hashCache[p]]_vars
  /\ [](\A p \in DOMAIN hashCache :
          /\ Cardinality(FetchesOf(p)) = 1
          /\ \A a \in FetchesOf(p) :
                hashCache[p] = ParseResponse(events[a].data))

C18_Witness ==
  /\ pc = "done"
  /\ Cardinality(DOMAIN hashCache) = 2
  /\ EventsOfType("hit") # {}
  /\ \E p \in DOMAIN hashCache : Len(hashCache[p]) = 2

\* C19: the export step, failed or not, leaves the results and the summary
\* as they were and the run ends with success status; a failed write is
\* reported and leaves no file; a run with errored entries ends with success
\* status too.
C19_ExportFailureChangesNothing ==
  /\ [][pc = "export" => /\ results' = results
                         /\ report' = report
                         /\ <<checkedCount, cachedCount, pwnedCount>>'
                              = <<checkedCount, cachedCount, pwnedCount>>
                         /\ exitCode' = 0]_vars
  /\ [](pc = "done" => /\ exitCode = 0
                       /\ report.printed
                       /\ report.total = Len(results)
                       /\ exportError => options.exportCsv /\ ~exportFile.written)

C19_Witness ==
  /\ pc = "done"
  /\ exportError
  /\ exitCode = 0
  /\ report.printed
  /\ report.errors > 0
  /\ report.pwned > 0

\* C20: check-pwned-passwords.js prints a password only with
\* --show-passwords and only for compromised entries (count > 0); never
\* without the flag, and never for safe entries or failed lookups.
C20_PasswordsOnlyForCompromised ==
  legacyOutput.printed =>
    \A k \in 1..Len(legacyOutput.lines) :
       legacyOutput.lines[k].passwordShown
         => /\ legacyOutput.showPasswords
            /\ Gt(results[k].count, 0)
            /\ ~Failed(k)

\* the lines of the input file, and the 1-based numbers of those that give a
\* password under the rule the script applies to a line
FileLines == split(inputFile.content, <<LF>>)

GivesPassword(n, legacy) ==
  LET line == trim(FileLines[n])
  IN  /\ line # <<>>
      /\ \/ ~inputFile.isCSV
         \/ (IF legacy THEN LegacyLinePassword(line)
                       ELSE LinePassword(line, TRUE)) # <<>>

SourceLines(legacy) == {n \in 1..Len(FileLines) : GivesPassword(n, legacy)}

\* the line the k-th password of the file came from
SourceLine(k, legacy) ==
  CHOOSE n \in SourceLines(legacy) :
    Cardinality({m \in SourceLines(legacy) : m <= n}) = k

\* C21: the N of "Line N" is the 1-based number of the input line the
\* password came from, also after blank lines and lines with an empty first
\* CSV field, in pwncheck.js (the entry's originalLineNumber) and in
\* check-pwned-passwords.js (the position in the parsed list plus one).
C21_LineNumberIsSourceLine ==
  /\ parsePc = "pwncheck.js" =>
       /\ Len(parsed) = Cardinality(SourceLines(FALSE))
       /\ \A k \in 1..Len(parsed) :
            parsed[k].originalLineNumber = SourceLine(k, FALSE)
  /\ parsePc = "check-pwned-passwords.js" =>
       /\ Len(parsed) = Cardinality(SourceLines(TRUE))
       /\ \A k \in 1..Len(parsed) :
            LegacyLineNumber(k - 1) = SourceLine(k, TRUE)

\* C22: when the run ends every record is in exactly one of the classes safe
\* (count = 0), breached (count > 0) and error (count = -1), so the three
\* printed totals add up to the number of entries, and so do new queries,
\* cache hits and errors, whatever counts the responses made the parser
\* produce.
C22_ClassesPartitionResults ==
  report.printed =>
    /\ \A k \in 1..Len(results) :
         \/ StrictEq(results[k].count, 0)
         \/ Gt(results[k].count, 0)
         \/ StrictEq(results[k].count, 0 - 1)
    /\ report.safe + report.pwned + report.errors = report.total
    /\ checkedCount + cachedCount + report.errors = report.total

\* C23: two records of one batch for the same password whose lookups both
\* succeeded carry the same count, whatever failed, was served from the cache
\* or was fetched for other entries between them.
C23_SamePasswordSameCount ==
  \A j \in 1..Len(results) : \A k \in 1..Len(results) :
     (/\ results[j].password = results[k].password
      /\ ~Failed(j)
      /\ ~Failed(k))
       => results[j].count = results[k].count

\* the password of the first entry comes again as the third, both are found
\* breached, and the entry between them failed
C23_Witness ==
  /\ Len(results) = 3
  /\ results[1].password = results[3].password
  /\ ~Failed(1)
  /\ Failed(2)
  /\ ~Failed(3)
  /\ Gt(results[1].count, 0)
  /\ results[3].count = results[1].count

====
